---- MODULE Spec2Model ----
(***************************************************************************)
(* Model of the media manager of shoraid/go-media: construction and alias  *)
(* switching (NewManager, Storage), single-key delegation, and the three   *)
(* concurrent batch operations (DeleteMany, GetURLs, GetSignedURLs), which *)
(* fan out one goroutine per key through an errgroup with a derived        *)
(* cancellation context.                                                   *)
(***************************************************************************)
EXTENDS Integers, Sequences, FiniteSets, Bags, TLC

\* ---------------------------------------------------------------- bounds
MaxKeys == 2

Keys == {"k1", "k2"}
Aliases == {"a", "b"}
Drivers == {"A", "B"}
Urls == {"u1", "u2"}
DriverErrs == {"e1", "e2"}
Expiries == {5}
Calls == {"c1", "c2"}

\* ---------------------------------------------------------- Go values
NilDriver == "<nil>"
NoErr == "nil"
ErrInvalidDefaultStorage == "media: invalid default storage"
NoExpiry == 0

NilSlice == [isNil |-> TRUE, elems |-> << >>]

\* make([]string, n): a non-nil slice of n empty strings
MakeSliceNilWhenEmpty(n) ==
  IF n = 0 THEN NilSlice ELSE [isNil |-> FALSE, elems |-> [i \in 1..n |-> ""]]
MakeSlice(n) == [isNil |-> FALSE, elems |-> [i \in 1..n |-> ""]]

BatchOps == {"DeleteMany", "GetURLs", "GetSignedURLs"}
UrlOps == {"GetURLs", "GetSignedURLs"}

\* the single-key operation a batch operation's units call
SingleOf(op) ==
  CASE op = "DeleteMany" -> "Delete"
    [] op = "GetURLs" -> "GetURL"
    [] op = "GetSignedURLs" -> "GetSignedURL"

SingleOps == {"Delete", "Exists", "GetSignedURL", "GetURL", "Missing", "Put"}

\* the driver operation a single-key manager operation dispatches to
DriverOp(sop) == IF sop = "Missing" THEN "Exists" ELSE sop

\* a driver call that blocks for ever, whatever its context, has no answer
Blocked == "blocked"
BlockedCall == [val |-> "", err |-> Blocked]
DriverReturns(r) == r.err # Blocked

\* what a driver operation can return: (val, err); Delete returns err only
Outcomes(dop) ==
  CASE dop = "Delete" -> [val : {""}, err : {NoErr} \cup DriverErrs]
    [] dop = "Exists" -> [val : BOOLEAN, err : {NoErr} \cup DriverErrs]
    [] OTHER -> [val : Urls, err : {NoErr}] \cup [val : {""}, err : DriverErrs]

\* ------------------------------------------------------------ registry
\* a Go map[string]MediaManager: nil, or a finite map alias -> driver
\* (a present alias may hold a nil interface value)
NilMap == [isNil |-> TRUE, m |-> << >>]

Registries ==
  {NilMap} \cup
  { [isNil |-> FALSE, m |-> f] :
      f \in UNION { [S -> Drivers \cup {NilDriver}] : S \in SUBSET Aliases } }

\* the zero mediaManagerImpl (no value is returned behind a nil interface)
ZeroManager == [storageMap |-> NilMap, defaultStorage |-> NilDriver]

\* v, ok := storage[alias]
MapHas(reg, alias) == (~reg.isNil) /\ alias \in DOMAIN reg.m
MapGet(reg, alias) == IF MapHas(reg, alias) THEN reg.m[alias] ELSE NilDriver

\* NewManager(defaultStorageAlias, storage): the value it returns; mgr is
\* the new *mediaManagerImpl (or the nil interface) and err the error
NewManagerUnchecked(alias, storage) ==
  [isNil |-> FALSE,
   mgr |-> [storageMap |-> storage, defaultStorage |-> MapGet(storage, alias)],
   err |-> NoErr]
NewManager(alias, storage) ==
  IF ~MapHas(storage, alias)
  THEN [isNil |-> TRUE, mgr |-> ZeroManager, err |-> ErrInvalidDefaultStorage]
  ELSE [isNil |-> FALSE,
        mgr |-> [storageMap |-> storage, defaultStorage |-> MapGet(storage, alias)],
        err |-> NoErr]

\* m.Storage(alias): a new manager value over the same map
StorageStickyNil(m, alias) ==
  [storageMap |-> m.storageMap,
   defaultStorage |-> IF m.defaultStorage = NilDriver THEN NilDriver
                      ELSE MapGet(m.storageMap, alias)]
StorageNarrowMap(m, alias) ==
  [storageMap |-> [isNil |-> FALSE,
                   m |-> [x \in {alias} \cap DOMAIN m.storageMap.m |-> m.storageMap.m[x]]],
   defaultStorage |-> MapGet(m.storageMap, alias)]
StorageKeepsDefault(m, alias) ==
  [storageMap |-> m.storageMap, defaultStorage |-> m.defaultStorage]
StorageFallback(m, alias) ==
  [storageMap |-> m.storageMap,
   defaultStorage |-> IF MapHas(m.storageMap, alias) THEN MapGet(m.storageMap, alias)
                                                     ELSE m.defaultStorage]
Storage(m, alias) ==
  [storageMap |-> m.storageMap, defaultStorage |-> MapGet(m.storageMap, alias)]

\* ------------------------------------------------------------- state
VARIABLES
  registry,     \* the map handed to NewManager
  mgrs,         \* the *mediaManagerImpl values built so far (index = pointer)
  newRes,       \* what the last NewManager call returned
  invoked,      \* bag of the invocations made on drivers
  crashed,      \* a nil interface was dispatched on (runtime panic)
  bpc,          \* per batch call: "idle", "loop" (spawning / waiting), "done"
  bin,          \* per batch call: its arguments and the drivers' answers
  bi,           \* per batch call: keys ranged over so far by the for loop
  unit,         \* per batch call: its goroutines
  urls,         \* per batch call: the urls slice made at entry
  gerr,         \* per batch call: errgroup.Group.err
  gcancelled,   \* per batch call: the derived context's cancel was called
  callerDone,   \* per batch call: the caller's context is cancelled
  bres,         \* per batch call: what the call returned
  prevErr,      \* per batch call: the error the previous identical call returned
  sres,         \* the last single-key call: its arguments, the driver's answer, its result
  origin,       \* per manager: the manager and alias it was made from
  scount,       \* single-key calls made so far
  s3cfg,        \* the ObjectStorage's config
  s3calls,      \* bag of the calls made on the S3 client and the presign client
  s3objs,       \* keys of the objects held by the bucket
  s3res         \* the last ObjectStorage call: its arguments, the clients' answers, its result

mgrVars == <<registry, mgrs, newRes>>
batchVars == <<bpc, bin, bi, unit, urls, gerr, gcancelled, callerDone, bres, prevErr>>
s3Vars == <<s3cfg, s3calls, s3objs, s3res>>
vars == <<registry, mgrs, newRes, invoked, crashed,
          bpc, bin, bi, unit, urls, gerr, gcancelled, callerDone, bres, prevErr,
          sres, origin, scount, s3cfg, s3calls, s3objs, s3res>>

None == "none"

\* the context the caller passes, and the one errgroup.WithContext derives
CallerCtx(c) == [kind |-> "caller", call |-> c]
GroupCtxShared(c) == [kind |-> "group", call |-> "c1"]
GroupCtx(c) == [kind |-> "group", call |-> c]

\* ctx.Err() != nil: a derived context is done when cancelled itself or
\* when its parent is
CtxDoneOwnOnly(ctx) ==
  IF ctx.kind = "caller" THEN callerDone[ctx.call] ELSE gcancelled[ctx.call]
CtxDone(ctx) ==
  IF ctx.kind = "caller"
  THEN callerDone[ctx.call]
  ELSE gcancelled[ctx.call] \/ callerDone[ctx.call]

NoArgs == [op |-> None, mgr |-> 0, keys |-> << >>, expiry |-> NoExpiry,
           script |-> << >>, cancelled |-> FALSE]
NoResult == [urls |-> NilSlice, err |-> None]
NoCtx == [kind |-> None, call |-> None]
NewUnit == [pc |-> "none", key |-> None, ctx |-> NoCtx, saw |-> FALSE, late |-> FALSE]

KeySeqs == UNION { [1..n -> Keys] : n \in 0..MaxKeys }

\* the driver the receiver of batch call c delegates to
DriverOfRoot(c) == mgrs[1].defaultStorage
DriverOf(c) == mgrs[bin[c].mgr].defaultStorage

\* `g, ctx := errgroup.WithContext(ctx)` shadows ctx: the closures pass the
\* derived context to the single-key operation
UnitCtxCaller(c) == CallerCtx(c)
UnitCtx(c) == GroupCtx(c)

\* `i, key := i, key`: the closure of iteration i owns index i
SlotOfFirst(c, i) == 1
SlotOfLast(c, i) == Len(bin[c].keys)
SlotOf(c, i) == i

\* the closure's `return err` / `return m.Delete(ctx, key)`: the error the
\* goroutine hands to the errgroup for the driver's answer r
UnitErrSwallowed(r) == NoErr
UnitErr(r) == r.err

\* errOnce.Do(func() { g.err = err; cancel() }): only the first error is kept
RecordErrLast(c, e) == e
RecordErr(c, e) == IF gerr[c] = NoErr THEN e ELSE gerr[c]

\* `if err := g.Wait(); err != nil { return nil, err }; return urls, nil`
\* (DeleteMany returns the error alone)
BatchResultPartial(c) == [urls |-> urls[c], err |-> gerr[c]]
BatchResultNoErr(c) == [urls |-> urls[c], err |-> NoErr]
BatchResultRejectEmpty(c) ==
  IF Len(bin[c].keys) = 0
  THEN [urls |-> NilSlice, err |-> "media: invalid key name"]
  ELSE IF gerr[c] # NoErr \/ bin[c].op = "DeleteMany"
       THEN [urls |-> NilSlice, err |-> gerr[c]]
       ELSE [urls |-> urls[c], err |-> NoErr]
BatchResult(c) ==
  IF gerr[c] # NoErr \/ bin[c].op = "DeleteMany"
  THEN [urls |-> NilSlice, err |-> gerr[c]]
  ELSE [urls |-> urls[c], err |-> NoErr]

\* g.Wait() blocks on the WaitGroup: until every goroutine has called done
WaitReadyAnyDone(c) ==
  \/ Len(bin[c].keys) = 0
  \/ \E i \in 1..Len(bin[c].keys) : unit[c][i].pc = "done"
WaitReadyEarly(c) ==
  \/ gerr[c] # NoErr
  \/ \A i \in 1..Len(bin[c].keys) : unit[c][i].pc = "done"
WaitReady(c) == \A i \in 1..Len(bin[c].keys) : unit[c][i].pc = "done"

\* entry of DeleteMany / GetURLs / GetSignedURLs on manager m, up to the loop
Enter(c, m, op, keys, expiry, script, cd) ==
  /\ bin' = [bin EXCEPT ![c] = [op |-> op, mgr |-> m, keys |-> keys,
                                expiry |-> expiry, script |-> script,
                                cancelled |-> cd]]
  /\ urls' = [urls EXCEPT ![c] =
                IF op = "DeleteMany" THEN NilSlice ELSE MakeSlice(Len(keys))]
  /\ gerr' = [gerr EXCEPT ![c] = NoErr]
  /\ gcancelled' = [gcancelled EXCEPT ![c] = FALSE]
  /\ callerDone' = [callerDone EXCEPT ![c] = cd]
  /\ bi' = [bi EXCEPT ![c] = 0]
  /\ unit' = [unit EXCEPT ![c] = [i \in 1..Len(keys) |-> NewUnit]]
  /\ bres' = [bres EXCEPT ![c] = NoResult]
  /\ bpc' = [bpc EXCEPT ![c] = "loop"]

\* a caller invokes a batch operation, before any single-key call, with a
\* receiver, an operation, keys and a caller context drawn from the given sets
StartBatchOf(c, ms, ops, keyseqs, cds) ==
  /\ ~crashed
  /\ bpc[c] = "idle"
  /\ scount = 0
  /\ \E m \in ms \cap (1..Len(mgrs)), op \in ops, keys \in keyseqs, cd \in cds :
       \E x \in (IF op = "GetSignedURLs" THEN Expiries ELSE {NoExpiry}),
          script \in [1..Len(keys) -> Outcomes(SingleOf(op))] :
         Enter(c, m, op, keys, x, script, cd)
  /\ prevErr' = [prevErr EXCEPT ![c] = None]
  /\ UNCHANGED <<mgrVars, invoked, crashed, sres, origin, scount, s3Vars>>

\* a caller invokes a batch operation
StartBatch(c) == StartBatchOf(c, 1..Len(mgrs), BatchOps, KeySeqs, BOOLEAN)

\* the caller repeats a finished call with the same arguments against
\* fresh drivers (nothing invoked on them yet) that answer the same way
CallAgain(c) ==
  /\ ~crashed
  /\ bpc[c] = "done"
  /\ Enter(c, bin[c].mgr, bin[c].op, bin[c].keys, bin[c].expiry, bin[c].script,
           bin[c].cancelled)
  /\ prevErr' = [prevErr EXCEPT ![c] = bres[c].err]
  /\ invoked' = EmptyBag
  /\ UNCHANGED <<mgrVars, crashed, sres, origin, scount, s3Vars>>

\* the key the closure of iteration i holds (`key := key`)
UnitKeyLoopVar(c, i) == bin[c].keys[Len(bin[c].keys)]
UnitKey(c, i) == bin[c].keys[i]

\* one iteration of `for i, key := range keys { g.Go(func) }`
GoUnit(c) ==
  /\ ~crashed
  /\ bpc[c] = "loop"
  /\ bi[c] < Len(bin[c].keys)
  /\ LET i == bi[c] + 1 IN
       /\ bi' = [bi EXCEPT ![c] = i]
       /\ unit' = [unit EXCEPT ![c][i] =
                     [@ EXCEPT !.pc = "spawned", !.key = UnitKey(c, i)]]
  /\ UNCHANGED <<mgrVars, invoked, crashed, bpc, bin, urls, gerr, gcancelled,
                 callerDone, bres, prevErr, sres, origin, scount, s3Vars>>

\* the goroutine of index i calls m.Delete / m.GetURL / m.GetSignedURL, which
\* dispatches on m.defaultStorage
UnitInvoke(c, i) ==
  /\ ~crashed
  /\ bpc[c] = "loop"
  /\ i \in 1..Len(bin[c].keys)
  /\ unit[c][i].pc = "spawned"
  /\ IF DriverOf(c) = NilDriver
     THEN /\ crashed' = TRUE
          /\ UNCHANGED <<invoked, unit>>
     ELSE /\ invoked' = invoked (+) SetToBag({[driver |-> DriverOf(c),
                                               op |-> SingleOf(bin[c].op),
                                               key |-> unit[c][i].key,
                                               expiry |-> bin[c].expiry,
                                               file |-> None,
                                               ctx |-> UnitCtx(c),
                                               via |-> bin[c].mgr]})
          /\ unit' = [unit EXCEPT ![c][i] =
                        [@ EXCEPT !.pc = "incall", !.ctx = UnitCtx(c),
                                  !.saw = CtxDone(UnitCtx(c)),
                                  !.late = (gerr[c] # NoErr)]]
          /\ UNCHANGED crashed
  /\ UNCHANGED <<mgrVars, bpc, bin, bi, urls, gerr, gcancelled, callerDone,
                 bres, prevErr, sres, origin, scount, s3Vars>>

\* the driver call of index i returns; the closure stores the URL or returns
\* the error to the errgroup, which keeps the first one and cancels the
\* derived context; then the goroutine is done
UnitReturn(c, i) ==
  /\ ~crashed
  /\ bpc[c] = "loop"
  /\ i \in 1..Len(bin[c].keys)
  /\ unit[c][i].pc = "incall"
  /\ DriverReturns(bin[c].script[i])
  /\ LET r == bin[c].script[i] IN
       IF UnitErr(r) # NoErr
       THEN /\ gerr' = [gerr EXCEPT ![c] = RecordErr(c, UnitErr(r))]
            /\ gcancelled' = [gcancelled EXCEPT ![c] = TRUE]
            /\ UNCHANGED urls
       ELSE /\ urls' = IF bin[c].op = "DeleteMany"
                       THEN urls
                       ELSE [urls EXCEPT ![c].elems[SlotOf(c, i)] = r.val]
            /\ UNCHANGED <<gerr, gcancelled>>
  /\ unit' = [unit EXCEPT ![c][i].pc = "done"]
  /\ UNCHANGED <<mgrVars, invoked, crashed, bpc, bin, bi, callerDone, bres, prevErr,
                 sres, origin, scount, s3Vars>>

\* g.Wait() returns: the derived context is cancelled and the batch call
\* returns (nil, err) or (urls, nil)
Wait(c) ==
  /\ ~crashed
  /\ bpc[c] = "loop"
  /\ bi[c] = Len(bin[c].keys)
  /\ WaitReady(c)
  /\ gcancelled' = [gcancelled EXCEPT ![c] = TRUE]
  /\ bres' = [bres EXCEPT ![c] = BatchResult(c)]
  /\ bpc' = [bpc EXCEPT ![c] = "done"]
  /\ UNCHANGED <<mgrVars, invoked, crashed, bin, bi, unit, urls, gerr,
                 callerDone, prevErr, sres, origin, scount, s3Vars>>

\* ------------------------------------------- construction and dispatch
MaxManagers == 2
MaxOps == 2
MaxMgrOps == 1
AbsentAlias == "zz"
Files == {"f1"}
NoSingle == [op |-> None, mgr |-> 0, key |-> None, expiry |-> NoExpiry, file |-> None,
             driver |-> None, dval |-> None, derr |-> None,
             val |-> None, err |-> None]
NoNew == [alias |-> None, isNil |-> TRUE, mgr |-> ZeroManager, err |-> None]

\* the composition root calls NewManager on its registry
CallNewManager(alias) ==
  /\ ~crashed
  /\ newRes = NoNew
  /\ LET r == NewManager(alias, registry) IN
       /\ newRes' = [alias |-> alias, isNil |-> r.isNil, mgr |-> r.mgr, err |-> r.err]
       /\ mgrs' = IF r.isNil THEN << >> ELSE <<r.mgr>>
       /\ origin' = IF r.isNil THEN << >> ELSE <<[parent |-> 0, alias |-> alias]>>
  /\ UNCHANGED <<registry, invoked, crashed, batchVars, sres, scount, s3Vars>>

\* the managers after heap[m].Storage(alias): Storage allocates a new
\* mediaManagerImpl and writes nothing else
StorageHeapInPlace(heap, m, alias) ==
  Append([heap EXCEPT ![m] = Storage(heap[m], alias)], Storage(heap[m], alias))
StorageHeap(heap, m, alias) == Append(heap, Storage(heap[m], alias))

\* a caller calls Storage(alias) on manager m
CallStorage(m, alias) ==
  /\ ~crashed
  /\ m \in 1..Len(mgrs)
  /\ mgrs' = StorageHeap(mgrs, m, alias)
  /\ origin' = Append(origin, [parent |-> m, alias |-> alias])
  /\ UNCHANGED <<registry, newRes, invoked, crashed, batchVars, sres, scount, s3Vars>>

\* what the manager's single-key operation returns for the driver's answer
\* r: a pass-through, except Missing, which negates a successful Exists
SingleResultReclassify(sop, r) ==
  IF sop = "Missing"
  THEN (IF r.err # NoErr THEN [val |-> FALSE, err |-> r.err]
                         ELSE [val |-> ~r.val, err |-> NoErr])
  ELSE [val |-> r.val, err |-> IF r.err # NoErr THEN "ErrInternal" ELSE NoErr]
SingleResultNegateAlways(sop, r) ==
  IF sop = "Missing" THEN [val |-> ~r.val, err |-> r.err] ELSE r
SingleResult(sop, r) ==
  IF sop = "Missing"
  THEN (IF r.err # NoErr THEN [val |-> FALSE, err |-> r.err]
                         ELSE [val |-> ~r.val, err |-> NoErr])
  ELSE r

\* the invocation a single-key operation makes on the selected driver: the
\* same-named operation (Exists for Missing) with the caller's arguments
SingleInvocation(m, sop, key, x, f) ==
  [driver |-> mgrs[m].defaultStorage, op |-> DriverOp(sop), key |-> key,
   expiry |-> x, file |-> f, ctx |-> [kind |-> "caller", call |-> None], via |-> m]

\* a caller calls a single-key operation on manager m while no batch call is
\* made: it dispatches on m.defaultStorage, which panics when that interface
\* value is nil
CallSingle(m, sop, key) ==
  /\ ~crashed
  /\ m \in 1..Len(mgrs)
  /\ \A c \in Calls : bpc[c] = "idle"
  /\ scount' = scount + 1
  /\ \E x \in (IF sop = "GetSignedURL" THEN Expiries ELSE {NoExpiry}),
        f \in (IF sop = "Put" THEN Files ELSE {None}) :
       IF mgrs[m].defaultStorage = NilDriver
       THEN /\ crashed' = TRUE
            /\ sres' = [NoSingle EXCEPT !.op = sop, !.mgr = m, !.key = key,
                                        !.expiry = x, !.file = f]
            /\ UNCHANGED invoked
       ELSE /\ \E r \in Outcomes(DriverOp(sop)) :
                 sres' = [op |-> sop, mgr |-> m, key |-> key, expiry |-> x,
                          file |-> f,
                          driver |-> SingleInvocation(m, sop, key, x, f).driver,
                          dval |-> r.val, derr |-> r.err,
                          val |-> SingleResult(sop, r).val,
                          err |-> SingleResult(sop, r).err]
            /\ invoked' = invoked (+) SetToBag({SingleInvocation(m, sop, key, x, f)})
            /\ UNCHANGED crashed
  /\ UNCHANGED <<mgrVars, batchVars, origin, s3Vars>>

\* ------------------------------------------------ batch specification
\* one batch call at a time, on a manager built over {a: A, b: B} or on one
\* of the managers Storage derives from it
BatchRegistry == [isNil |-> FALSE, m |-> [x \in Aliases |-> IF x = "a" THEN "A" ELSE "B"]]
RootManager == NewManager("a", BatchRegistry).mgr

\* ------------------------------------------------------- S3 driver
MaxKeyLen == 2
ErrInternal == "ErrInternal"
ErrInvalidKey == "ErrInvalidKey"
VisibilityPrivate == "private"
VisibilityPublic == "public"
S3Endpoint == "ep"
S3Bucket == "bkt"
EmptyStr == << >>

\* a key is a string, modelled as the sequence of its characters
KeyChars == {"a", ".", "-", "/"}
S3Keys == UNION { [1..n -> KeyChars] : n \in 0..MaxKeyLen }

\* the character class [a-zA-Z0-9._-] of fileNameRegex
Lower == {"a","b","c","d","e","f","g","h","i","j","k","l","m",
          "n","o","p","q","r","s","t","u","v","w","x","y","z"}
Upper == {"A","B","C","D","E","F","G","H","I","J","K","L","M",
          "N","O","P","Q","R","S","T","U","V","W","X","Y","Z"}
Digits == {"0","1","2","3","4","5","6","7","8","9"}
FileNameChars == Lower \cup Upper \cup Digits \cup {".", "_", "-"}

\* fileNameRegex.MatchString(name) for ^[a-zA-Z0-9._-]+$
MatchFileName(name) == Len(name) >= 1 /\ \A i \in 1..Len(name) : name[i] \in FileNameChars

\* validateKey(name): the error it returns, or nil
validateKeyAllowsDots(name) ==
  CASE Len(name) = 0 -> "key cannot be empty"
    [] Len(name) > 0 /\ ~MatchFileName(name) -> "key contains invalid characters"
    [] OTHER -> NoErr
validateKey(name) ==
  CASE Len(name) = 0 -> "key cannot be empty"
    [] Len(name) > 0 /\ ~MatchFileName(name) -> "key contains invalid characters"
    [] MatchFileName(name) /\ (name = <<".">> \/ name = <<".", ".">>) -> "invalid key"
    [] OTHER -> NoErr

\* the configurations an ObjectStorage is built with; NewObjectStorage
\* stores the config it is given in ObjectStorage.config
S3Configs == [visibility : {VisibilityPrivate, VisibilityPublic, ""},
              useSSL : BOOLEAN, defaultExpiry : {0} \cup Expiries]
\* NewObjectStorage(cfg) with credentials that load: it computes a default
\* expiry of 15 minutes for a zero DefaultExpiry, and returns an
\* ObjectStorage holding cfg itself; the computed value is stored nowhere
FifteenMinutes == 15
NewObjectStorage(cfg) ==
  LET defaultExpiry == IF cfg.defaultExpiry = 0 THEN FifteenMinutes
                                                ELSE cfg.defaultExpiry
  IN  [config |-> cfg]

ZeroS3Config == [visibility |-> "", useSSL |-> FALSE, defaultExpiry |-> 0]
NoS3Result == [op |-> None, key |-> EmptyStr, expiry |-> NoExpiry, cans |-> None,
               exists |-> FALSE, url |-> EmptyStr, err |-> None]

\* fmt.Sprintf("%s://%s/%s/%s", scheme, endpoint, bucket, key)
DirectURLAlwaysHttps(cfg, key) ==
  <<"https", "://", S3Endpoint, "/", S3Bucket, "/">> \o key
DirectURL(cfg, key) ==
  <<(IF cfg.useSSL THEN "https" ELSE "http"), "://", S3Endpoint, "/", S3Bucket, "/">> \o key

\* what the clients can answer: an error of DeleteObject / PutObject /
\* PresignGetObject, and for HeadObject success on a stored key, the API
\* error NotFound on a missing one, or another API or transport error
ClientErr == "some AWS error"
PresignedURL == <<"presigned">>
HeadOutcomes(key) ==
  (IF key \in s3objs THEN {[ok |-> TRUE, api |-> FALSE, code |-> "ok"]}
                     ELSE {[ok |-> FALSE, api |-> TRUE, code |-> "NotFound"]})
  \cup {[ok |-> FALSE, api |-> TRUE, code |-> "Forbidden"],
        [ok |-> FALSE, api |-> FALSE, code |-> ClientErr]}

S3Call(api, key, expiry) == [api |-> api, key |-> key, expiry |-> expiry]

\* Exists: what it returns for the answer h of HeadObject
\* (errors.As finds an API error anywhere in the chain, then its code is tested)
ExistsResultAnyApi(h) ==
  IF h.ok THEN [exists |-> TRUE, err |-> NoErr]
  ELSE IF h.api THEN [exists |-> FALSE, err |-> NoErr]
       ELSE [exists |-> FALSE, err |-> ErrInternal]
ExistsResult(h) ==
  IF h.ok THEN [exists |-> TRUE, err |-> NoErr]
  ELSE IF h.api /\ h.code = "NotFound" THEN [exists |-> FALSE, err |-> NoErr]
       ELSE [exists |-> FALSE, err |-> ErrInternal]

\* GetSignedURL presigns on a private storage only
SigningAppliesUnlessPublic(cfg) == cfg.visibility # VisibilityPublic
SigningApplies(cfg) == cfg.visibility = VisibilityPrivate

\* GetSignedURL(key, expiry): the presign calls it makes and what it returns
SignedURLOutcomes(cfg, key, expiry) ==
  IF ~SigningApplies(cfg)
  THEN {[calls |-> << >>, cans |-> None, url |-> EmptyStr, err |-> NoErr]}
  ELSE {[calls |-> <<S3Call("PresignGetObject", key, expiry)>>, cans |-> "ok",
         url |-> PresignedURL, err |-> NoErr],
        [calls |-> <<S3Call("PresignGetObject", key, expiry)>>, cans |-> ClientErr,
         url |-> EmptyStr, err |-> ErrInternal]}

\* the operation returns; cans is the answer of the last client call it
\* made: "ok", an API error code, a transport error, or none when it made none
S3Done(op, key, expiry, cans, exists, url, err) ==
  s3res' = [op |-> op, key |-> key, expiry |-> expiry, cans |-> cans,
            exists |-> exists, url |-> url, err |-> err]

S3Frame == UNCHANGED <<mgrVars, batchVars, invoked, crashed, sres, origin, scount, s3cfg>>

\* Delete: the error it returns for the error e of DeleteObject
DeleteErrRaw(e) == e
DeleteErr(e) == IF e # NoErr THEN ErrInternal ELSE NoErr

S3Delete(key) ==
  /\ s3res.op = None
  /\ s3calls' = <<S3Call("DeleteObject", key, NoExpiry)>>
  /\ \E e \in {NoErr, ClientErr} :
       IF e # NoErr
       THEN S3Done("Delete", key, NoExpiry, ClientErr, FALSE, EmptyStr, DeleteErr(e))
            /\ UNCHANGED s3objs
       ELSE S3Done("Delete", key, NoExpiry, "ok", FALSE, EmptyStr, NoErr)
            /\ s3objs' = s3objs \ {key}
  /\ S3Frame

S3Exists(key) ==
  /\ s3res.op = None
  /\ s3calls' = <<S3Call("HeadObject", key, NoExpiry)>>
  /\ \E h \in HeadOutcomes(key) :
       S3Done("Exists", key, NoExpiry, h.code, ExistsResult(h).exists, EmptyStr,
              ExistsResult(h).err)
  /\ UNCHANGED s3objs
  /\ S3Frame

S3GetSignedURL(key, expiry) ==
  /\ s3res.op = None
  /\ \E o \in SignedURLOutcomes(s3cfg, key, expiry) :
       /\ s3calls' = o.calls
       /\ S3Done("GetSignedURL", key, expiry, o.cans, FALSE, o.url, o.err)
  /\ UNCHANGED s3objs
  /\ S3Frame

S3GetURL(key) ==
  /\ s3res.op = None
  /\ s3calls' = << >>
  /\ IF s3cfg.visibility # VisibilityPublic
     THEN S3Done("GetURL", key, NoExpiry, None, FALSE, EmptyStr, NoErr)
     ELSE S3Done("GetURL", key, NoExpiry, None, FALSE, DirectURL(s3cfg, key), NoErr)
  /\ UNCHANGED s3objs
  /\ S3Frame

S3Put(key) ==
  /\ s3res.op = None
  /\ IF validateKey(key) # NoErr
     THEN /\ s3calls' = << >>
          /\ S3Done("Put", key, NoExpiry, None, FALSE, EmptyStr, ErrInvalidKey)
          /\ UNCHANGED s3objs
     ELSE \E e \in {NoErr, ClientErr} :
            IF e # NoErr
            THEN /\ s3calls' = <<S3Call("PutObject", key, NoExpiry)>>
                 /\ S3Done("Put", key, NoExpiry, ClientErr, FALSE, EmptyStr, ErrInternal)
                 /\ UNCHANGED s3objs
            ELSE /\ s3objs' = s3objs \cup {key}
                 /\ IF s3cfg.visibility = VisibilityPublic
                    THEN /\ s3calls' = <<S3Call("PutObject", key, NoExpiry)>>
                         /\ S3Done("Put", key, NoExpiry, "ok", FALSE,
                                   DirectURL(s3cfg, key), NoErr)
                    ELSE \E o \in SignedURLOutcomes(s3cfg, key, s3cfg.defaultExpiry) :
                           /\ s3calls' = <<S3Call("PutObject", key, NoExpiry)>> \o o.calls
                           /\ S3Done("Put", key, s3cfg.defaultExpiry,
                                     IF o.cans = None THEN "ok" ELSE o.cans,
                                     FALSE, o.url, o.err)
  /\ S3Frame

\* the S3 driver is not used: a zero config, no client call, an empty bucket
IdleS3 ==
  /\ s3cfg = ZeroS3Config
  /\ s3calls = << >>
  /\ s3objs = {}
  /\ s3res = NoS3Result

IdleBatch ==
  /\ bpc = [c \in Calls |-> "idle"]
  /\ bin = [c \in Calls |-> NoArgs]
  /\ bi = [c \in Calls |-> 0]
  /\ unit = [c \in Calls |-> << >>]
  /\ urls = [c \in Calls |-> NilSlice]
  /\ gerr = [c \in Calls |-> NoErr]
  /\ gcancelled = [c \in Calls |-> FALSE]
  /\ callerDone = [c \in Calls |-> FALSE]
  /\ bres = [c \in Calls |-> NoResult]
  /\ prevErr = [c \in Calls |-> None]

Init ==
  /\ registry = BatchRegistry
  /\ newRes = [alias |-> "a", isNil |-> FALSE, mgr |-> RootManager, err |-> NoErr]
  /\ mgrs = <<RootManager, Storage(RootManager, "b"), Storage(RootManager, "zz")>>
  /\ origin = <<[parent |-> 0, alias |-> "a"], [parent |-> 1, alias |-> "b"],
                [parent |-> 1, alias |-> "zz"]>>
  /\ invoked = EmptyBag
  /\ crashed = FALSE
  /\ sres = NoSingle
  /\ scount = 0
  /\ IdleBatch
  /\ IdleS3

Next ==
  \/ StartBatch("c1")
  \/ GoUnit("c1")
  \/ \E i \in 1..MaxKeys : UnitInvoke("c1", i)
  \/ \E i \in 1..MaxKeys : UnitReturn("c1", i)
  \/ Wait("c1")
  \/ CallAgain("c1")

Spec == Init /\ [][Next]_vars

\* ----------------------------------------- construction specification
\* NewManager on any registry, then alias switches and single-key calls
\* the keys of the calls made on constructed managers
MgrKeys == {"k1"}
MgrKeySeqs == {<< >>} \cup { <<k>> : k \in MgrKeys }

InitMgr ==
  /\ registry \in Registries
  /\ newRes = NoNew
  /\ mgrs = << >>
  /\ origin = << >>
  /\ invoked = EmptyBag
  /\ crashed = FALSE
  /\ sres = NoSingle
  /\ scount = 0
  /\ IdleBatch
  /\ IdleS3

NextMgr ==
  \/ \E alias \in Aliases \cup {AbsentAlias} : CallNewManager(alias)
  \/ \E m \in 1..MaxManagers, alias \in Aliases \cup {AbsentAlias} :
       Len(mgrs) < MaxManagers /\ CallStorage(m, alias)
  \/ \E m \in 1..MaxManagers, sop \in SingleOps, key \in MgrKeys :
       scount < MaxMgrOps /\ CallSingle(m, sop, key)
  \/ StartBatchOf("c1", 1..MaxManagers, BatchOps, MgrKeySeqs, {FALSE})
  \/ GoUnit("c1")
  \/ \E i \in 1..MaxKeys : UnitInvoke("c1", i)
  \/ \E i \in 1..MaxKeys : UnitReturn("c1", i)
  \/ Wait("c1")

SpecMgr == InitMgr /\ [][NextMgr]_vars

\* ------------------------------------------------ chain specification
\* NewManager on any registry, chains of Storage calls up to MaxChain
\* managers, and one Exists call on one of them
MaxChain == 3

NextChain ==
  \/ \E alias \in Aliases \cup {AbsentAlias} : CallNewManager(alias)
  \/ \E m \in 1..MaxChain, alias \in Aliases \cup {AbsentAlias} :
       Len(mgrs) < MaxChain /\ scount = 0 /\ CallStorage(m, alias)
  \/ \E m \in 1..MaxChain, key \in MgrKeys :
       scount = 0 /\ CallSingle(m, "Exists", key)

SpecChain == InitMgr /\ [][NextChain]_vars

\* ---------------------------------------------- dispatch specification
\* single-key calls, repeated, on the managers of the batch specification
NextOps ==
  \E m \in 1..Len(mgrs), sop \in SingleOps, key \in Keys :
    scount < MaxOps /\ CallSingle(m, sop, key)

SpecOps == Init /\ [][NextOps]_vars

\* -------------------------------------------- concurrency specification
\* two callers, each making one URL batch call on the root manager, their
\* units interleaved in every way; no caller cancels its context
PairKeySeqs == {<<"k1">>, <<"k1", "k2">>}

NextPair ==
  \E c \in Calls :
    \/ StartBatchOf(c, {1}, UrlOps, PairKeySeqs, {FALSE})
    \/ GoUnit(c)
    \/ \E i \in 1..MaxKeys : UnitInvoke(c, i)
    \/ \E i \in 1..MaxKeys : UnitReturn(c, i)
    \/ Wait(c)

SpecPair == Init /\ [][NextPair]_vars

\* ---------------------------------------------- progress specification
\* one batch call on the root manager whose driver calls each return or
\* block for ever; the goroutines and the caller are scheduled fairly
LiveKeySeqs == {<< >>, <<"k1">>, <<"k1", "k2">>}

StartBatchBlocking(c) ==
  /\ ~crashed
  /\ bpc[c] = "idle"
  /\ \E op \in BatchOps, keys \in LiveKeySeqs :
       \E x \in (IF op = "GetSignedURLs" THEN Expiries ELSE {NoExpiry}),
          script \in [1..Len(keys) -> Outcomes(SingleOf(op)) \cup {BlockedCall}] :
         Enter(c, 1, op, keys, x, script, FALSE)
  /\ prevErr' = [prevErr EXCEPT ![c] = None]
  /\ UNCHANGED <<mgrVars, invoked, crashed, sres, origin, scount, s3Vars>>

NextLive ==
  \/ StartBatchBlocking("c1")
  \/ GoUnit("c1")
  \/ \E i \in 1..MaxKeys : UnitInvoke("c1", i)
  \/ \E i \in 1..MaxKeys : UnitReturn("c1", i)
  \/ Wait("c1")

SpecLive ==
  /\ Init /\ [][NextLive]_vars
  /\ WF_vars(GoUnit("c1"))
  /\ \A i \in 1..MaxKeys : WF_vars(UnitInvoke("c1", i)) /\ WF_vars(UnitReturn("c1", i))
  /\ WF_vars(Wait("c1"))

\* ------------------------------------------------- S3 specification
\* one operation on an ObjectStorage of any configuration, over a bucket
\* that is empty or holds the object "a"
InitS3 ==
  /\ registry = BatchRegistry
  /\ newRes = NoNew
  /\ mgrs = << >>
  /\ origin = << >>
  /\ invoked = EmptyBag
  /\ crashed = FALSE
  /\ sres = NoSingle
  /\ scount = 0
  /\ IdleBatch
  /\ s3cfg \in { NewObjectStorage(cfg).config : cfg \in S3Configs }
  /\ s3calls = << >>
  /\ s3objs \in {{}, {<<"a">>}}
  /\ s3res = NoS3Result

NextS3 ==
  \/ \E key \in S3Keys : S3Delete(key)
  \/ \E key \in S3Keys : S3Exists(key)
  \/ \E key \in S3Keys, expiry \in Expiries : S3GetSignedURL(key, expiry)
  \/ \E key \in S3Keys : S3GetURL(key)
  \/ \E key \in S3Keys : S3Put(key)

SpecS3 == InitS3 /\ [][NextS3]_vars


\* ================================================================ claims
Returned(c) == bpc[c] = "done"
Indexes(c) == 1..Len(bin[c].keys)
Failing(c) == { i \in Indexes(c) : bin[c].script[i].err # NoErr }
FailErrs(c) == { bin[c].script[i].err : i \in Failing(c) }

\* C1: a URL batch call on a non-empty key sequence whose driver calls all
\* succeed returns no error and a result of len(keys) entries whose entry i
\* is the URL the driver returned to the unit of keys[i]
C1_OrderedResult ==
  \A c \in Calls :
    (Returned(c) /\ bin[c].op \in UrlOps /\ Len(bin[c].keys) > 0 /\ Failing(c) = {})
    => /\ bres[c].err = NoErr
       /\ ~bres[c].urls.isNil
       /\ Len(bres[c].urls.elems) = Len(bin[c].keys)
       /\ \A i \in Indexes(c) :
            /\ unit[c][i].key = bin[c].keys[i]
            /\ bres[c].urls.elems[i] = bin[c].script[i].val

C1_Witness ==
  \E c \in Calls :
    /\ Returned(c) /\ bin[c].op \in UrlOps /\ Len(bin[c].keys) = MaxKeys
    /\ Failing(c) = {}
    /\ bin[c].script[1].val # bin[c].script[MaxKeys].val
    /\ bres[c].urls.elems[1] = bin[c].script[1].val

\* C2: a batch call in which exactly one key's driver call fails returns
\* exactly that key's error and, for the URL operations, a nil result
C2_SingleFailure ==
  \A c \in Calls :
    (Returned(c) /\ Cardinality(Failing(c)) = 1)
    => /\ \A i \in Failing(c) : bres[c].err = bin[c].script[i].err
       /\ bres[c].urls.isNil

C2_Witness ==
  \E c \in Calls :
    /\ Returned(c) /\ bin[c].op \in UrlOps
    /\ Failing(c) = {MaxKeys}
    /\ bres[c].err = bin[c].script[MaxKeys].err
    /\ bres[c].urls.isNil

\* C3: a URL batch call returns either no error with every unit having
\* succeeded, or an error with a nil result, whatever the other units wrote
C3_NoPartialSuccess ==
  \A c \in Calls :
    (Returned(c) /\ bin[c].op \in UrlOps)
    => \/ bres[c].err = NoErr /\ Failing(c) = {}
       \/ bres[c].err # NoErr /\ bres[c].urls.isNil

C3_Witness ==
  \E c \in Calls :
    /\ Returned(c) /\ bin[c].op \in UrlOps
    /\ bres[c].err # NoErr /\ bres[c].urls.isNil
    /\ \E i \in Indexes(c) : urls[c].elems[i] # ""

\* C4: a batch call has returned only when every unit it spawned has
\* completed, also when an error was recorded before the last unit ran
C4_BarrierJoin ==
  \A c \in Calls :
    Returned(c) => /\ bi[c] = Len(bin[c].keys)
                   /\ \A i \in Indexes(c) : unit[c][i].pc = "done"

C4_Witness ==
  \E c \in Calls :
    /\ Returned(c) /\ bres[c].err # NoErr
    /\ \E i \in Indexes(c) : unit[c][i].late /\ unit[c][i].pc = "done"

\* C5 (as stated): repeating a batch call with the same keys and the same
\* driver answers returns the same error, whatever the interleaving
C5_SameErrorEveryRun ==
  \A c \in Calls :
    (Returned(c) /\ prevErr[c] # None) => bres[c].err = prevErr[c]

\* C5 (amended): when two or more units fail, the error returned is the
\* error of one of the failing units, in this run and in a repeated one; it
\* is the same in both runs when the failing units all return one error
C5_SomeFailingUnitsError ==
  \A c \in Calls :
    (Returned(c) /\ Cardinality(Failing(c)) >= 2)
    => /\ bres[c].err \in FailErrs(c)
       /\ prevErr[c] # None => prevErr[c] \in FailErrs(c)
       /\ (Cardinality(FailErrs(c)) = 1 /\ prevErr[c] # None)
            => bres[c].err = prevErr[c]

C5_Witness ==
  \E c \in Calls :
    /\ Returned(c) /\ Cardinality(FailErrs(c)) >= 2
    /\ prevErr[c] # None /\ prevErr[c] # bres[c].err

\* C6: DeleteMany with zero keys returns nil and makes no Delete invocation
\* on the selected driver
C6_DeleteManyNoKeys ==
  \A c \in Calls :
    (Returned(c) /\ bin[c].op = "DeleteMany" /\ Len(bin[c].keys) = 0)
    => /\ bres[c].err = NoErr
       /\ \A inv \in BagToSet(invoked) : inv.op # "Delete"

C6_Witness ==
  \E c \in Calls :
    Returned(c) /\ bin[c].op = "DeleteMany" /\ Len(bin[c].keys) = 0

\* C7: GetURLs and GetSignedURLs with an empty key sequence return no error
\* and an empty non-nil result, spawn no unit and invoke no driver
C7_UrlsNoKeys ==
  \A c \in Calls :
    (Returned(c) /\ bin[c].op \in UrlOps /\ Len(bin[c].keys) = 0)
    => /\ bres[c].err = NoErr
       /\ ~bres[c].urls.isNil
       /\ Len(bres[c].urls.elems) = 0
       /\ unit[c] = << >>
       /\ invoked = EmptyBag

C7_Witness ==
  \E c \in Calls :
    Returned(c) /\ bin[c].op = "GetSignedURLs" /\ Len(bin[c].keys) = 0

\* C8: every unit of a batch call passes the call's one derived context;
\* that context is cancelled once an error is recorded, so a unit that
\* observes it afterwards sees it cancelled; the caller's context stays as
\* the caller passed it
C8_SharedCancellation ==
  \A c \in Calls :
    bpc[c] # "idle"
    => /\ \A i \in Indexes(c) :
            /\ unit[c][i].pc \in {"incall", "done"} => unit[c][i].ctx = GroupCtx(c)
            /\ unit[c][i].late => unit[c][i].saw
       /\ gerr[c] # NoErr => CtxDone(GroupCtx(c))
       /\ callerDone[c] = bin[c].cancelled

C8_Witness ==
  \E c \in Calls :
    /\ ~bin[c].cancelled
    /\ \E i \in Indexes(c) : unit[c][i].late /\ unit[c][i].saw
    /\ ~CtxDone(CallerCtx(c))

\* C9: NewManager returns a nil manager and ErrInvalidDefaultStorage when
\* the registry is nil or empty or lacks the alias, and no error otherwise
C9_NewManagerError ==
  newRes # NoNew
  => IF registry.isNil \/ DOMAIN registry.m = {} \/ newRes.alias \notin DOMAIN registry.m
     THEN newRes.isNil /\ newRes.err = ErrInvalidDefaultStorage /\ mgrs = << >>
     ELSE newRes.err = NoErr /\ ~newRes.isNil

C9_Witness ==
  /\ newRes # NoNew
  /\ ~registry.isNil /\ DOMAIN registry.m # {}
  /\ newRes.alias \notin DOMAIN registry.m
  /\ newRes.err = ErrInvalidDefaultStorage

\* C10: whenever NewManager succeeds, the manager's selected driver is
\* registry[alias] and is not nil, and no single-key call on it panics
C10_ResolvedDriver ==
  (newRes # NoNew /\ newRes.err = NoErr)
  => /\ newRes.mgr.defaultStorage = registry.m[newRes.alias]
     /\ newRes.mgr.defaultStorage # NilDriver
     /\ (Len(mgrs) = 1 => ~crashed)

\* the driver manager m selected when it was made: registry[alias] for the
\* alias given to NewManager or Storage, nil when the alias is absent
OriginalDriver(m) == MapGet(registry, origin[m].alias)

\* C11: Storage returns a new manager over the same registry whose selected
\* driver is registry[alias], and writes no existing manager: every manager
\* keeps its registry and selected driver through every later Storage call,
\* and every operation on it invokes the driver it selected when it was made
C11_StorageFrame ==
  /\ [](/\ \A m \in 1..Len(mgrs) :
             /\ mgrs[m].storageMap = registry
             /\ mgrs[m].defaultStorage = OriginalDriver(m)
        /\ \A inv \in BagToSet(invoked) : inv.driver = OriginalDriver(inv.via)
        /\ (sres.op # None /\ ~crashed) => sres.driver = OriginalDriver(sres.mgr))
  /\ [][Len(mgrs) >= 1 /\ Len(mgrs') = Len(mgrs) + 1
        => /\ \A m \in 1..Len(mgrs) : mgrs'[m] = mgrs[m]
           /\ mgrs'[Len(mgrs')] =
                [storageMap |-> registry,
                 defaultStorage |-> MapGet(registry, origin'[Len(mgrs')].alias)]]_vars

C11_Witness ==
  /\ Len(mgrs) = 2 /\ origin[2].parent = 1
  /\ mgrs[2].defaultStorage \in Drivers
  /\ mgrs[1].defaultStorage \in Drivers \ {mgrs[2].defaultStorage}
  /\ sres.op # None /\ sres.mgr = 1
  /\ sres.driver = registry.m[newRes.alias]

\* the managers a Storage call made with an alias the registry lacks
Unresolved == { m \in 1..Len(mgrs) : origin[m].parent >= 1 /\ ~MapHas(registry, origin[m].alias) }

\* C12: Storage with an alias absent from the registry returns, without any
\* fault, a manager whose selected driver is nil; a single-key operation on
\* that manager panics on the nil dispatch: it invokes no driver and returns
\* neither a value nor an error; and nothing but a dispatch on a nil selected
\* driver faults
C12_LazyNilFault ==
  /\ [](/\ \A m \in Unresolved : mgrs[m].defaultStorage = NilDriver
        /\ (sres.op # None /\ sres.mgr \in Unresolved)
             => /\ crashed
                /\ sres.val = None /\ sres.err = None /\ sres.driver = None
                /\ \A inv \in BagToSet(invoked) : inv.via # sres.mgr
        /\ crashed
             => \/ sres.op # None /\ mgrs[sres.mgr].defaultStorage = NilDriver
                \/ bpc["c1"] = "loop" /\ DriverOf("c1") = NilDriver)
  /\ [][Len(mgrs') = Len(mgrs) + 1 => ~crashed']_vars

C12_Witness ==
  /\ sres.op # None /\ sres.mgr \in Unresolved
  /\ origin[sres.mgr].alias = AbsentAlias
  /\ mgrs[origin[sres.mgr].parent].defaultStorage \in Drivers
  /\ crashed /\ sres.err = None

\* the managers Storage(alias) derived from manager m
Derived(m, alias) == { d \in 1..Len(mgrs) : origin[d] = [parent |-> m, alias |-> alias] }

\* the drivers that operations on manager m have invoked
InvokedVia(m) == { inv.driver : inv \in { x \in BagToSet(invoked) : x.via = m } }

\* C13: over the registry {a: A, b: B}, with a manager constructed with alias
\* a, the operations on Storage("b") invoke B and never A, and the operations
\* on the original manager invoke A and never B
C13_AliasRouting ==
  (registry = BatchRegistry /\ newRes # NoNew /\ newRes.alias = "a")
  => /\ InvokedVia(1) \subseteq {"A"}
     /\ \A d \in Derived(1, "b") : InvokedVia(d) \subseteq {"B"}
     /\ (sres.op # None /\ sres.mgr = 1) => sres.driver = "A" /\ InvokedVia(1) = {"A"}
     /\ (sres.op # None /\ sres.mgr \in Derived(1, "b"))
          => sres.driver = "B" /\ InvokedVia(sres.mgr) = {"B"}
     /\ \A c \in Calls :
          (Returned(c) /\ Len(bin[c].keys) > 0 /\ bin[c].mgr \in {1} \cup Derived(1, "b"))
          => InvokedVia(bin[c].mgr) = {IF bin[c].mgr = 1 THEN "A" ELSE "B"}

C13_Witness ==
  /\ registry = BatchRegistry /\ newRes.alias = "a"
  /\ \E c \in Calls :
       /\ Returned(c) /\ Len(bin[c].keys) > 0
       /\ bin[c].mgr \in Derived(1, "b")
       /\ InvokedVia(bin[c].mgr) = {"B"}

\* the single-key operations that return the driver's answer as it is
PassOps == SingleOps \ {"Missing"}

\* the driver invocation the last single-key call is expected to have made
ExpectedInvocation(res, dop) ==
  [driver |-> mgrs[res.mgr].defaultStorage, op |-> dop, key |-> res.key,
   expiry |-> res.expiry, file |-> res.file,
   ctx |-> [kind |-> "caller", call |-> None], via |-> res.mgr]

\* C14: a call of Delete, Exists, GetSignedURL, GetURL or Put that does not
\* panic adds exactly one invocation to those made on drivers, the same-named
\* operation on the selected driver with the caller's key, expiry and content,
\* and returns the value and the error that invocation returned; this holds
\* for every call, also after a failed one and for a repeated one
C14_PassThrough ==
  [][(scount' = scount + 1 /\ sres'.op \in PassOps /\ ~crashed')
       => /\ invoked' = invoked (+) SetToBag({ExpectedInvocation(sres', sres'.op)})
          /\ sres'.driver = mgrs[sres'.mgr].defaultStorage
          /\ sres'.val = sres'.dval
          /\ sres'.err = sres'.derr]_vars

C14_Witness ==
  /\ sres.op \in PassOps /\ ~crashed
  /\ sres.err \in DriverErrs /\ sres.err = sres.derr
  /\ scount = 2
  /\ CopiesIn(ExpectedInvocation(sres, sres.op), invoked) = 2

\* C15: a call of Missing that does not panic adds exactly one invocation,
\* Exists with the caller's key on the selected driver; it returns (~b, nil)
\* when that invocation returned (b, nil), and (FALSE, e) when it returned the
\* error e, whatever boolean came with e
C15_MissingNegatesExists ==
  [][(scount' = scount + 1 /\ sres'.op = "Missing" /\ ~crashed')
       => /\ invoked' = invoked (+) SetToBag({ExpectedInvocation(sres', "Exists")})
          /\ IF sres'.derr = NoErr
             THEN sres'.val = ~sres'.dval /\ sres'.err = NoErr
             ELSE sres'.val = FALSE /\ sres'.err = sres'.derr]_vars

C15_Witness ==
  /\ sres.op = "Missing" /\ ~crashed
  /\ sres.derr \in DriverErrs /\ sres.dval = FALSE
  /\ sres.val = FALSE /\ sres.err = sres.derr
  /\ CopiesIn(ExpectedInvocation(sres, "Exists"), invoked) = 1

\* C16: no step writes the registry handed to NewManager or the map a
\* manager holds, and every manager, the constructed one and the derived
\* ones, holds that registry: the map Storage reads on it is the one given
\* at construction
C16_RegistryImmutable ==
  /\ [][/\ registry' = registry
        /\ \A m \in 1..Len(mgrs) : mgrs'[m].storageMap = mgrs[m].storageMap]_vars
  /\ [](\A m \in 1..Len(mgrs) :
          /\ ~mgrs[m].storageMap.isNil
          /\ mgrs[m].storageMap = registry
          /\ \A x \in Aliases \cup {AbsentAlias} :
               Storage(mgrs[m], x).defaultStorage = MapGet(registry, x))

C16_Witness ==
  /\ Len(mgrs) = MaxManagers /\ origin[MaxManagers].parent >= 1
  /\ DOMAIN registry.m = Aliases
  /\ mgrs[MaxManagers].storageMap = registry
  /\ \E c \in Calls : Returned(c) /\ bin[c].mgr = MaxManagers /\ Len(bin[c].keys) > 0

\* the units of call c that have called the driver
Invoked(c) == { i \in Indexes(c) : unit[c][i].pc \in {"incall", "done"} }

\* C17: of two batch calls running concurrently on one manager, each passes
\* its units a context of its own, which is cancelled only by a failure among
\* its own units or by its own return, and each returns what its own units'
\* driver answers determine: its URLs in key order when none of them failed,
\* one of their errors and a nil result otherwise
C17_IndependentBatches ==
  \A c \in Calls :
    /\ \A i \in Invoked(c) :
         /\ unit[c][i].ctx = [kind |-> "group", call |-> c]
         /\ unit[c][i].saw => Failing(c) # {} /\ gerr[c] \in FailErrs(c)
    /\ gcancelled[c] => (Returned(c) \/ gerr[c] \in FailErrs(c))
    /\ Returned(c)
         => IF Failing(c) = {}
            THEN /\ bres[c].err = NoErr
                 /\ bres[c].urls.elems = [i \in Indexes(c) |-> bin[c].script[i].val]
            ELSE /\ bres[c].err \in FailErrs(c)
                 /\ bres[c].urls.isNil

C17_Witness ==
  /\ bin["c1"].mgr = bin["c2"].mgr
  /\ bpc["c1"] = "loop" /\ bpc["c2"] = "loop"
  /\ gerr["c1"] \in DriverErrs /\ gcancelled["c1"]
  /\ \E i \in Invoked("c1") : unit["c1"][i].saw
  /\ ~gcancelled["c2"] /\ gerr["c2"] = NoErr
  /\ Invoked("c2") = Indexes("c2") /\ Len(bin["c2"].keys) = 2
  /\ \A i \in Indexes("c2") : ~unit["c2"][i].saw

\* C18: Exists makes one HeadObject call and returns (TRUE, nil) when it
\* succeeds, (FALSE, nil) when it fails with the API error code NotFound, and
\* (FALSE, ErrInternal) for any other failure
C18_ExistsOutcomes ==
  s3res.op = "Exists"
  => /\ s3calls = <<S3Call("HeadObject", s3res.key, NoExpiry)>>
     /\ s3res.cans = "ok" => (s3res.exists /\ s3res.err = NoErr)
     /\ s3res.cans = "NotFound" => (~s3res.exists /\ s3res.err = NoErr)
     /\ s3res.cans \notin {"ok", "NotFound"} => (~s3res.exists /\ s3res.err = ErrInternal)

C18_Witness ==
  /\ s3res.op = "Exists" /\ s3res.key \notin s3objs /\ Len(s3res.key) > 0
  /\ s3res.cans = "NotFound"
  /\ ~s3res.exists /\ s3res.err = NoErr

\* C19: GetSignedURL on a storage that is not private returns ("", nil) and
\* makes no presign call; on a private one it makes one presign call and
\* returns the presigned URL, or ("", ErrInternal) when presigning fails;
\* GetURL returns no error, and "" on a storage that is not public
C19_UrlApplicability ==
  /\ s3res.op = "GetSignedURL"
     => IF s3cfg.visibility # "private"
        THEN s3res.url = EmptyStr /\ s3res.err = NoErr /\ s3calls = << >>
        ELSE /\ s3calls = <<S3Call("PresignGetObject", s3res.key, s3res.expiry)>>
             /\ \/ s3res.cans = "ok" /\ s3res.url = PresignedURL /\ s3res.err = NoErr
                \/ s3res.cans # "ok" /\ s3res.url = EmptyStr /\ s3res.err = ErrInternal
  /\ s3res.op = "GetURL"
     => /\ s3res.err = NoErr
        /\ s3calls = << >>
        /\ s3cfg.visibility # "public" => s3res.url = EmptyStr

C19_Witness ==
  /\ s3res.op = "GetSignedURL" /\ s3cfg.visibility = ""
  /\ s3res.url = EmptyStr /\ s3res.err = NoErr /\ s3calls = << >>

\* the keys Put rejects: empty, holding a character outside [a-zA-Z0-9._-],
\* or equal to "." or ".."
RejectedKey(key) ==
  \/ Len(key) = 0
  \/ \E i \in 1..Len(key) : key[i] \notin FileNameChars
  \/ key = <<".">>
  \/ key = <<".", ".">>

\* C20: Put with a rejected key returns ("", ErrInvalidKey), makes no
\* PutObject call and no presign call, and leaves the bucket as it was
C20_InvalidKeyRejected ==
  [][(s3res'.op = "Put" /\ s3res.op = None /\ RejectedKey(s3res'.key))
       => /\ s3res'.url = EmptyStr /\ s3res'.err = ErrInvalidKey
          /\ s3calls' = << >>
          /\ s3objs' = s3objs]_vars

C20_Witness ==
  /\ s3res.op = "Put" /\ s3res.key = <<".", ".">>
  /\ s3res.err = ErrInvalidKey /\ s3calls = << >>
  /\ s3res.key \notin s3objs

\* the errors the library defines for its drivers to return
LibraryErrs == {ErrInternal, ErrInvalidKey}

\* C21: an ObjectStorage operation returns nil, ErrInternal or ErrInvalidKey:
\* when a client call fails, the error returned is ErrInternal and never the
\* client's own error
C21_OwnErrorsOnly ==
  s3res.op # None
  => /\ s3res.err \in {NoErr} \cup LibraryErrs
     /\ s3res.err # s3res.cans
     /\ s3res.cans \in {ClientErr, "Forbidden"} => s3res.err = ErrInternal

C21_Witness ==
  /\ s3res.op = "Delete" /\ s3res.cans = ClientErr
  /\ s3calls = <<S3Call("DeleteObject", s3res.key, NoExpiry)>>
  /\ s3res.err = ErrInternal

\* the invocation a unit of call c makes for key k
UnitInvocation(c, k) ==
  [driver |-> DriverOf(c), op |-> SingleOf(bin[c].op), key |-> k,
   expiry |-> bin[c].expiry, file |-> None,
   ctx |-> [kind |-> "group", call |-> c], via |-> bin[c].mgr]

\* C22: a batch call on n keys that has returned has launched n units, one
\* per index, and each has made one invocation of the single-key operation on
\* the selected driver with its key and the call's expiry: the driver has
\* been invoked once per occurrence of each key and n times in all, also when
\* units were invoked after a failure had cancelled the shared context
C22_OneUnitPerKey ==
  \A c \in Calls :
    (Returned(c) /\ DriverOf(c) # NilDriver)
    => /\ Len(unit[c]) = Len(bin[c].keys)
       /\ \A i \in Indexes(c) : unit[c][i].pc = "done" /\ unit[c][i].key = bin[c].keys[i]
       /\ BagCardinality(invoked) = Len(bin[c].keys)
       /\ \A k \in Keys :
            CopiesIn(UnitInvocation(c, k), invoked)
              = Cardinality({ i \in Indexes(c) : bin[c].keys[i] = k })

C22_Witness ==
  \E c \in Calls :
    /\ Returned(c) /\ bin[c].op = "GetSignedURLs"
    /\ bin[c].keys = <<"k1", "k1">>
    /\ bres[c].err # NoErr
    /\ unit[c][2].late /\ unit[c][2].saw
    /\ CopiesIn(UnitInvocation(c, "k1"), invoked) = 2

\* C23: in GetURLs and GetSignedURLs the result sequence has len(keys) slots
\* from before the first unit starts until the call returns; a step changes
\* it only when the unit of some index i returns from a successful driver
\* call, and then only slot i, which was still empty, receives that URL; so
\* slot i is empty until then and for good when unit i fails
C23_DisjointSlots ==
  /\ [](\A c \in Calls :
          (bpc[c] = "loop" /\ bin[c].op \in UrlOps)
          => /\ ~urls[c].isNil
             /\ Len(urls[c].elems) = Len(bin[c].keys)
             /\ \A i \in Indexes(c) :
                  urls[c].elems[i] =
                    IF unit[c][i].pc = "done" /\ bin[c].script[i].err = NoErr
                    THEN bin[c].script[i].val ELSE "")
  /\ [][\A c \in Calls :
          (bpc[c] = "loop" /\ bpc'[c] = "loop" /\ urls'[c] # urls[c])
          => \E i \in Indexes(c) :
               /\ unit[c][i].pc = "incall" /\ unit'[c][i].pc = "done"
               /\ bin[c].script[i].err = NoErr
               /\ urls[c].elems[i] = ""
               /\ urls'[c] = [urls[c] EXCEPT !.elems[i] = bin[c].script[i].val]]_vars

C23_Witness ==
  \E c \in Calls :
    /\ Returned(c) /\ bin[c].op \in UrlOps /\ Len(bin[c].keys) = 2
    /\ bin[c].script[1].err # NoErr /\ bin[c].script[2].err = NoErr
    /\ urls[c].elems = <<"", bin[c].script[2].val>>
    /\ bres[c].urls.isNil

\* C24: the error of a batch call is recorded by the step in which a failing
\* unit returns while no error is recorded yet, and is that unit's error; no
\* later step replaces it, and a call that returns an error returns it
C24_FirstRecordedError ==
  /\ [][\A c \in Calls :
          (bpc[c] = "loop" /\ bpc'[c] # "idle")
          => /\ gerr[c] # NoErr => gerr'[c] = gerr[c]
             /\ (gerr[c] = NoErr /\ gerr'[c] # NoErr)
                  => \E i \in Indexes(c) :
                       /\ unit[c][i].pc = "incall" /\ unit'[c][i].pc = "done"
                       /\ bin[c].script[i].err = gerr'[c]]_vars
  /\ [](\A c \in Calls :
          Returned(c) => /\ bres[c].err = gerr[c]
                         /\ bres[c].err # NoErr => bres[c].err \in FailErrs(c))

C24_Witness ==
  \E c \in Calls :
    /\ Returned(c) /\ Failing(c) = {1, 2}
    /\ bin[c].script[1].err # bin[c].script[2].err
    /\ bres[c].err = bin[c].script[2].err

\* the units of call c whose driver call never returns
Blocking(c) == { i \in Indexes(c) : ~DriverReturns(bin[c].script[i]) }

\* C25: under fair scheduling a batch call whose driver calls all return
\* does return; a batch call with a driver call that never returns never
\* returns, whatever error another unit has recorded
C25_ReturnsIffDriverCallsReturn ==
  /\ \A c \in Calls : (bpc[c] = "loop" /\ Blocking(c) = {}) ~> Returned(c)
  /\ [](\A c \in Calls : Returned(c) => Blocking(c) = {})

C25_Witness ==
  \E c \in Calls :
    /\ bpc[c] = "loop" /\ bi[c] = Len(bin[c].keys)
    /\ Blocking(c) = {1} /\ unit[c][1].pc = "incall"
    /\ Len(bin[c].keys) = 2 /\ unit[c][2].pc = "done"
    /\ gerr[c] \in DriverErrs /\ gcancelled[c]

\* C26: a batch call entered with a cancelled caller context passes every
\* unit the derived context, which is then cancelled too; it still invokes
\* the driver once per key, and what it returns is what those invocations
\* answered: the URLs in key order and no error when none failed, one of
\* their errors otherwise, and never an error of its own
C26_CallerContextNotChecked ==
  \A c \in Calls :
    (bpc[c] # "idle" /\ bin[c].cancelled)
    => /\ \A i \in Invoked(c) :
            /\ unit[c][i].ctx = [kind |-> "group", call |-> c]
            /\ unit[c][i].saw
       /\ (Returned(c) /\ DriverOf(c) # NilDriver)
            => /\ BagCardinality(invoked) = Len(bin[c].keys)
               /\ \A i \in Indexes(c) :
                    CopiesIn(UnitInvocation(c, bin[c].keys[i]), invoked) >= 1
               /\ IF Failing(c) = {}
                  THEN /\ bres[c].err = NoErr
                       /\ bin[c].op \in UrlOps
                            => bres[c].urls.elems =
                                 [i \in Indexes(c) |-> bin[c].script[i].val]
                  ELSE bres[c].err \in FailErrs(c)

C26_Witness ==
  \E c \in Calls :
    /\ Returned(c) /\ bin[c].cancelled /\ bin[c].op = "GetSignedURLs"
    /\ Len(bin[c].keys) = 2 /\ Failing(c) = {}
    /\ \A i \in Indexes(c) : unit[c][i].saw /\ ~unit[c][i].late
    /\ bres[c].err = NoErr /\ ~bres[c].urls.isNil
    /\ BagCardinality(invoked) = 2

\* C27: on a manager Storage made with an absent alias, a batch call with no
\* keys returns no error and an empty result, with no fault and no driver
\* invoked; a batch call with keys never returns: no unit gets past its
\* dispatch on the nil driver, and the fault occurs in a spawned unit
C27_UnresolvedBatch ==
  /\ [](\A c \in Calls :
          (bpc[c] # "idle" /\ bin[c].mgr \in Unresolved)
          => /\ InvokedVia(bin[c].mgr) = {}
             /\ IF Len(bin[c].keys) = 0
                THEN /\ ~crashed
                     /\ Returned(c)
                          => /\ bres[c].err = NoErr
                             /\ bres[c].urls.elems = << >>
                             /\ bin[c].op \in UrlOps => ~bres[c].urls.isNil
                ELSE /\ ~Returned(c)
                     /\ \A i \in Indexes(c) : unit[c][i].pc \in {"none", "spawned"}
                     /\ crashed => \E i \in Indexes(c) : unit[c][i].pc = "spawned")
  /\ [][(~crashed /\ crashed')
        => \E c \in Calls : \E i \in Indexes(c) :
             /\ bin[c].mgr \in Unresolved \/ DriverOf(c) = NilDriver
             /\ unit[c][i].pc = "spawned"]_vars

C27_Witness ==
  \E c \in Calls :
    /\ bin[c].mgr \in Unresolved /\ origin[bin[c].mgr].alias = AbsentAlias
    /\ Len(bin[c].keys) = 2 /\ bi[c] = 2
    /\ crashed /\ bpc[c] = "loop" /\ bres[c] = NoResult

\* the managers a Storage call made on a manager that a Storage call made
Chained == { d \in 1..Len(mgrs) : origin[d].parent >= 2 }

\* C28: the manager at the end of a chain of Storage calls has the registry
\* of the constructed manager and the selected driver registry[alias] of the
\* last alias alone: it equals every manager Storage made with that alias,
\* whatever the receiver was; after Storage(absent) a Storage(present) selects
\* the present driver, and an operation on the result reaches that driver
C28_LastAliasWins ==
  \A d \in Chained :
    /\ mgrs[d].storageMap = mgrs[1].storageMap
    /\ mgrs[d].defaultStorage = MapGet(registry, origin[d].alias)
    /\ \A e \in 2..Len(mgrs) : origin[e].alias = origin[d].alias => mgrs[e] = mgrs[d]
    /\ origin[origin[d].parent].alias = origin[d].alias => mgrs[d] = mgrs[origin[d].parent]
    /\ (MapHas(registry, origin[d].alias) /\ registry.m[origin[d].alias] # NilDriver)
         => /\ mgrs[d].defaultStorage \in Drivers
            /\ (sres.op # None /\ sres.mgr = d)
                 => ~crashed /\ sres.driver = registry.m[origin[d].alias]

C28_Witness ==
  /\ Len(mgrs) = 3
  /\ origin[2] = [parent |-> 1, alias |-> AbsentAlias]
  /\ origin[3].parent = 2 /\ origin[3].alias \in Aliases
  /\ mgrs[2].defaultStorage = NilDriver
  /\ mgrs[3].defaultStorage \in Drivers \ {mgrs[1].defaultStorage}
  /\ sres.op = "Exists" /\ sres.mgr = 3 /\ ~crashed /\ sres.driver = mgrs[3].defaultStorage

\* the calls of one client operation among those an operation made
CallsOf(calls, api) == { n \in 1..Len(calls) : calls[n].api = api }

\* C29: Put with an accepted key makes one PutObject call, first; when it
\* fails Put returns ("", ErrInternal), presigns nothing and stores nothing;
\* when it succeeds the object is stored and Put returns, on a public
\* storage, scheme://endpoint/bucket/key with https when UseSSL and http
\* otherwise, and on a private one the presigned URL, or ("", ErrInternal)
\* when presigning fails
C29_PutOutcomes ==
  [][(s3res.op = None /\ s3res'.op = "Put" /\ ~RejectedKey(s3res'.key))
       => /\ s3calls'[1] = S3Call("PutObject", s3res'.key, NoExpiry)
          /\ CallsOf(s3calls', "PutObject") = {1}
          /\ IF Len(s3calls') = 1 /\ s3res'.cans = ClientErr
             THEN /\ s3res'.url = EmptyStr /\ s3res'.err = ErrInternal
                  /\ s3objs' = s3objs
             ELSE /\ s3objs' = s3objs \cup {s3res'.key}
                  /\ s3cfg.visibility = "public"
                       => /\ Len(s3calls') = 1 /\ s3res'.err = NoErr
                          /\ s3res'.url =
                               <<(IF s3cfg.useSSL THEN "https" ELSE "http"),
                                 "://", S3Endpoint, "/", S3Bucket, "/">> \o s3res'.key
                  /\ s3cfg.visibility = "private"
                       => /\ CallsOf(s3calls', "PresignGetObject") = {2}
                          /\ s3calls'[2].key = s3res'.key
                          /\ \/ /\ s3res'.cans = "ok"
                                /\ s3res'.url = PresignedURL /\ s3res'.err = NoErr
                             \/ /\ s3res'.cans = ClientErr
                                /\ s3res'.url = EmptyStr /\ s3res'.err = ErrInternal]_vars

C29_Witness ==
  /\ s3res.op = "Put" /\ s3cfg.visibility = "private"
  /\ Len(s3calls) = 2 /\ s3res.cans = ClientErr
  /\ s3res.url = EmptyStr /\ s3res.err = ErrInternal
  /\ s3res.key = <<"a", "-">> /\ s3res.key \in s3objs

\* C30: the signed URL Put generates on a private storage is presigned with
\* 15 minutes when the configured DefaultExpiry is zero, and with the
\* configured DefaultExpiry otherwise
C30_DefaultExpiry ==
  (s3res.op = "Put" /\ s3cfg.visibility = "private"
     /\ CallsOf(s3calls, "PresignGetObject") # {})
  => \A n \in CallsOf(s3calls, "PresignGetObject") :
       s3calls[n].expiry = IF s3cfg.defaultExpiry = 0 THEN FifteenMinutes
                                                      ELSE s3cfg.defaultExpiry

====
